---- MODULE Spec2Model ----
(***************************************************************************)
(* Schema discovery and profiling of a MongoDB collection:                 *)
(*   gcp_data_collection/schema_profiler_helpers.py                         *)
(*     get_type_name, iter_field_paths, discover_fields, profile_collection *)
(*   scripts/6_schema_profiler.py  run                                      *)
(*                                                                         *)
(* A Python str is a sequence of one-character strings, so that paths can  *)
(* be joined, compared and sorted as Python does.  A Python value is a     *)
(* record [type, val]: type is the name of the value's class, val the      *)
(* items of a dict (a sequence of <<key, value>>, in insertion order), the *)
(* elements of a list, or a printed form of a scalar.                      *)
(***************************************************************************)
EXTENDS Integers, Sequences, FiniteSets, TLC

\* ------------------------------------------------------------------ bounds
MaxDocs == 3
MaxLimit == 3
MaxTotal == 100
\* the permits of the crawler's semaphore; the source sets 15, scaled down so
\* that the fetches of the input outnumber the permits
CONCURRENCY == 2

\* ------------------------------------------------------------- Python str
Alphabet == <<".", "_", "a", "b", "c", "d", "e", "f", "g", "h", "i", "j", "k",
              "l", "m", "n", "o", "p", "q", "r", "s", "t", "u", "v", "w", "x",
              "y", "z">>

\* ord(c): the alphabet lists its characters in code point order
Ord(c) == CHOOSE i \in 1..Len(Alphabet) : Alphabet[i] = c

\* s < t on str: code point lexicographic, a proper prefix is smaller
StrLess(s, t) ==
    \E i \in 1..(Len(t)) :
        /\ \A j \in 1..(i - 1) : j <= Len(s) /\ s[j] = t[j]
        /\ \/ i = Len(s) + 1
           \/ i <= Len(s) /\ Ord(s[i]) < Ord(t[i])

\* ----------------------------------------------------------- Python values
None == [type |-> "NoneType", val |-> <<>>]
PyInt(n) == [type |-> "int", val |-> n]
PyStr(s) == [type |-> "str", val |-> s]
PyBool(b) == [type |-> "bool", val |-> b]
PyFloat(x) == [type |-> "float", val |-> x]
PyObjectId(x) == [type |-> "ObjectId", val |-> x]
PyDatetime(x) == [type |-> "datetime", val |-> x]
PyDict(items) == [type |-> "dict", val |-> items]
PyList(elems) == [type |-> "list", val |-> elems]

\* the classes a value of class t is an instance of (bool subclasses int)
Bases(t) == IF t = "bool" THEN {"bool", "int"} ELSE {t}

isinstance(value, cls) == cls \in Bases(value.type)

\* ------------------------------------------------------------ get_type_name
\* mutant: a value of no recognized kind gets one fixed label
get_type_name_NoFallback(value) ==
    IF value = None THEN "NoneType"
    ELSE IF isinstance(value, "bool") THEN "bool"
    ELSE IF isinstance(value, "int") /\ ~isinstance(value, "bool") THEN "int"
    ELSE IF isinstance(value, "float") THEN "float"
    ELSE IF isinstance(value, "str") THEN "string"
    ELSE IF isinstance(value, "ObjectId") THEN "ObjectId"
    ELSE IF isinstance(value, "dict") THEN "object"
    ELSE IF isinstance(value, "list") THEN "array"
    ELSE "unknown"

\* mutant: None is given the label null
get_type_name_NullLabel(value) ==
    IF value = None THEN "null"
    ELSE IF isinstance(value, "bool") THEN "bool"
    ELSE IF isinstance(value, "int") THEN "int"
    ELSE IF isinstance(value, "float") THEN "float"
    ELSE IF isinstance(value, "str") THEN "string"
    ELSE IF isinstance(value, "ObjectId") THEN "ObjectId"
    ELSE IF isinstance(value, "dict") THEN "object"
    ELSE IF isinstance(value, "list") THEN "array"
    ELSE value.type

get_type_name(value) ==
    IF value = None THEN "NoneType"
    ELSE IF isinstance(value, "bool") THEN "bool"
    ELSE IF isinstance(value, "int") /\ ~isinstance(value, "bool") THEN "int"
    ELSE IF isinstance(value, "float") THEN "float"
    ELSE IF isinstance(value, "str") THEN "string"
    ELSE IF isinstance(value, "ObjectId") THEN "ObjectId"
    ELSE IF isinstance(value, "dict") THEN "object"
    ELSE IF isinstance(value, "list") THEN "array"
    ELSE value.type

\* --------------------------------------------------------- iter_field_paths
\* prefix: str | None; NoPrefix is None, <<>> is the empty str
NoPrefix == <<"None">>

\* truth value of a prefix: None and "" are false
Truthy(prefix) == prefix # NoPrefix /\ prefix # <<>>

\* path = f"{prefix}.{key}" if prefix else key
JoinPath(prefix, key) == IF Truthy(prefix) THEN prefix \o <<".">> \o key ELSE key

RECURSIVE iter_field_paths(_, _)
RECURSIVE IterDictItems(_, _)
RECURSIVE IterListItems(_, _)

\* mutant: a key holding an object or array yields only the pairs below it
IterDictItems_LeavesOnly(items, prefix) ==
    IF items = <<>> THEN <<>>
    ELSE LET key == Head(items)[1]
             value == Head(items)[2]
             path == JoinPath(prefix, key)
         IN  (IF isinstance(value, "dict") \/ isinstance(value, "list")
              THEN iter_field_paths(value, path) ELSE <<<<path, value>>>>)
             \o IterDictItems(Tail(items), prefix)

\* mutant: the pairs of a nested value come before the pair of its key
IterDictItems_ChildrenFirst(items, prefix) ==
    IF items = <<>> THEN <<>>
    ELSE LET key == Head(items)[1]
             value == Head(items)[2]
             path == JoinPath(prefix, key)
         IN  (IF isinstance(value, "dict") \/ isinstance(value, "list")
              THEN iter_field_paths(value, path) ELSE <<>>)
             \o <<<<path, value>>>>
             \o IterDictItems(Tail(items), prefix)

\* mutant: the loop over the keys ends after the first nested value
IterDictItems_StopsAfterNested(items, prefix) ==
    IF items = <<>> THEN <<>>
    ELSE LET key == Head(items)[1]
             value == Head(items)[2]
             path == JoinPath(prefix, key)
         IN  <<<<path, value>>>>
             \o (IF isinstance(value, "dict") \/ isinstance(value, "list")
                 THEN iter_field_paths(value, path)
                 ELSE IterDictItems(Tail(items), prefix))

\* for key, value in obj.items(): yield path, value; recurse into dict/list
IterDictItems(items, prefix) ==
    IF items = <<>> THEN <<>>
    ELSE LET key == Head(items)[1]
             value == Head(items)[2]
             path == JoinPath(prefix, key)
         IN  <<<<path, value>>>>
             \o (IF isinstance(value, "dict") \/ isinstance(value, "list")
                 THEN iter_field_paths(value, path) ELSE <<>>)
             \o IterDictItems(Tail(items), prefix)

\* mutant: a scalar element is yielded as an occurrence of the array's path
IterListItems_YieldsScalars(elems, prefix) ==
    IF elems = <<>> THEN <<>>
    ELSE LET item == Head(elems)
         IN  (IF isinstance(item, "dict") \/ isinstance(item, "list")
              THEN iter_field_paths(item, prefix) ELSE <<<<prefix, item>>>>)
             \o IterListItems(Tail(elems), prefix)

\* mutant: only dict elements are descended into, a list in a list is skipped
IterListItems_DictsOnly(elems, prefix) ==
    IF elems = <<>> THEN <<>>
    ELSE LET item == Head(elems)
         IN  (IF isinstance(item, "dict")
              THEN iter_field_paths(item, prefix) ELSE <<>>)
             \o IterListItems(Tail(elems), prefix)

\* for item in obj: recurse into dict/list items with the same prefix
IterListItems(elems, prefix) ==
    IF elems = <<>> THEN <<>>
    ELSE LET item == Head(elems)
         IN  (IF isinstance(item, "dict") \/ isinstance(item, "list")
              THEN iter_field_paths(item, prefix) ELSE <<>>)
             \o IterListItems(Tail(elems), prefix)

\* mutant: a root object is itself yielded, under the empty path
iter_field_paths_YieldsRoot(obj, prefix) ==
    IF isinstance(obj, "dict")
    THEN (IF prefix = NoPrefix THEN <<<<<<>>, obj>>>> ELSE <<>>)
         \o IterDictItems(obj.val, prefix)
    ELSE IF isinstance(obj, "list") THEN IterListItems(obj.val, prefix)
    ELSE <<>>

\* the sequence of (field_path, value) pairs the generator yields
iter_field_paths(obj, prefix) ==
    IF isinstance(obj, "dict") THEN IterDictItems(obj.val, prefix)
    ELSE IF isinstance(obj, "list") THEN IterListItems(obj.val, prefix)
    ELSE <<>>

\* the set of paths a traversal of doc from the root yields
PathsOf(doc) ==
    LET pairs == iter_field_paths(doc, NoPrefix)
    IN  {pairs[i][1] : i \in 1..Len(pairs)}

\* ------------------------------------------------------------------ sorted
\* mutant: the elements in decreasing order
RECURSIVE Sorted_Descending(_)
Sorted_Descending(S) ==
    IF S = {} THEN <<>>
    ELSE LET greatest == CHOOSE x \in S : \A y \in S \ {x} : StrLess(y, x)
         IN  <<greatest>> \o Sorted_Descending(S \ {greatest})

\* sorted(fields): the elements of a set of str in increasing order
RECURSIVE Sorted(_)
Sorted(S) ==
    IF S = {} THEN <<>>
    ELSE LET least == CHOOSE x \in S : \A y \in S \ {x} : StrLess(x, y)
         IN  <<least>> \o Sorted(S \ {least})

\* list.sort(key=lambda p: p.field): stable insertion by the key
RECURSIVE InsertByField(_, _)
InsertByField(sortedSeq, p) ==
    IF sortedSeq = <<>> THEN <<p>>
    ELSE IF StrLess(p.field, Head(sortedSeq).field)
         THEN <<p>> \o sortedSeq
         ELSE <<Head(sortedSeq)>> \o InsertByField(Tail(sortedSeq), p)

\* mutant: the list is returned in the insertion order of stats
SortByField_Unsorted(profs) == profs

RECURSIVE SortByField(_)
SortByField(profs) ==
    IF profs = <<>> THEN <<>>
    ELSE InsertByField(SortByField(SubSeq(profs, 1, Len(profs) - 1)),
                       profs[Len(profs)])

\* ------------------------------------------------------------------- stats
\* stats: defaultdict field_path -> {present_count, non_null_count,
\* type_counts}; keys holds the paths in insertion order, at the entries
EmptyCounter == [t \in {} |-> 0]

EmptyStats == [keys |-> <<>>, at |-> [p \in {} |-> 0]]

DefaultEntry == [present_count |-> 0, non_null_count |-> 0,
                 type_counts |-> EmptyCounter]

\* stats[path]: a missing key is inserted with the default entry
Touch(stats, path) ==
    IF path \in DOMAIN stats.at THEN stats
    ELSE [keys |-> Append(stats.keys, path),
          at |-> [p \in DOMAIN stats.at \cup {path} |->
                     IF p = path THEN DefaultEntry ELSE stats.at[p]]]

\* Counter[type_name] += 1
CounterInc(counter, name) ==
    [t \in DOMAIN counter \cup {name} |->
        IF t = name
        THEN (IF name \in DOMAIN counter THEN counter[name] ELSE 0) + 1
        ELSE counter[t]]

\* mutant: the type of a None value is not counted
CountOccurrence_NoTypeForNone(stats, path, value) ==
    LET st == Touch(stats, path)
        e == st.at[path]
    IN  IF value # None
        THEN [st EXCEPT !.at[path] =
                 [e EXCEPT !.type_counts = CounterInc(e.type_counts, get_type_name(value)),
                           !.non_null_count = @ + 1]]
        ELSE st

\* mutant: non_null_count is incremented for a None value too
CountOccurrence_CountsNone(stats, path, value) ==
    LET st == Touch(stats, path)
        e == st.at[path]
    IN  [st EXCEPT !.at[path] =
            [e EXCEPT !.type_counts = CounterInc(e.type_counts, get_type_name(value)),
                      !.non_null_count = @ + 1]]

\* the body of `for path, value in iter_field_paths(doc)`
CountOccurrence(stats, path, value) ==
    LET st == Touch(stats, path)
        e == st.at[path]
        typed == [e EXCEPT !.type_counts =
                     CounterInc(e.type_counts, get_type_name(value))]
        counted == IF value # None
                   THEN [typed EXCEPT !.non_null_count = @ + 1]
                   ELSE typed
    IN  [st EXCEPT !.at[path] = counted]

RECURSIVE CountOccurrences(_, _)
CountOccurrences(stats, pairs) ==
    IF pairs = <<>> THEN stats
    ELSE CountOccurrences(CountOccurrence(stats, Head(pairs)[1], Head(pairs)[2]),
                          Tail(pairs))

\* seen_paths after the inner loop
SeenPaths(pairs) == {pairs[i][1] : i \in 1..Len(pairs)}

\* for path in seen_paths: stats[path]["present_count"] += 1
BumpPresent(stats, seen) ==
    [stats EXCEPT !.at = [p \in DOMAIN stats.at |->
        IF p \in seen
        THEN [stats.at[p] EXCEPT !.present_count = @ + 1]
        ELSE stats.at[p]]]

\* mutant: present_count is incremented once per yielded pair
ProfileDocument_PresentPerOccurrence(stats, doc) ==
    LET pairs == iter_field_paths(doc, NoPrefix)
        counted == CountOccurrences(stats, pairs)
    IN  [counted EXCEPT !.at = [p \in DOMAIN counted.at |->
            [counted.at[p] EXCEPT !.present_count =
                @ + Cardinality({i \in 1..Len(pairs) : pairs[i][1] = p})]]]

\* one document of the profiling loop, after the limit test
ProfileDocument(stats, doc) ==
    LET pairs == iter_field_paths(doc, NoPrefix)
    IN  BumpPresent(CountOccurrences(stats, pairs), SeenPaths(pairs))

FieldProfile(field_path, total, s) ==
    [field |-> field_path,
     total_docs |-> total,
     present_count |-> s.present_count,
     non_null_count |-> s.non_null_count,
     type_counts |-> s.type_counts]

\* profiles.append(FieldProfile(...)) for field_path, s in stats.items()
BuildProfiles(stats, total) ==
    [i \in 1..Len(stats.keys) |->
        FieldProfile(stats.keys[i], total, stats.at[stats.keys[i]])]

\* ------------------------------------------------- FieldProfile properties
\* A float is modelled by the exact fraction <<numerator, denominator>> it is
\* the nearest double to; a denominator of 0 stands for ZeroDivisionError.
ZeroDivisionError == <<0, 0>>

\* Python's a / b
TrueDiv(a, b) == IF b = 0 THEN ZeroDivisionError ELSE <<a, b>>

missing_count(p) == p.total_docs - p.present_count

\* mutant: the division is made without the guard on total_docs
missing_pct_NoZeroGuard(p) == TrueDiv(missing_count(p) * 100, p.total_docs)

missing_pct(p) ==
    IF p.total_docs = 0 THEN <<0, 1>>
    ELSE TrueDiv(missing_count(p) * 100, p.total_docs)

\* round(x, 2) of a non-negative x, in hundredths: the nearest hundredth, a tie
\* going to the even one. (A fraction with a denominator up to a few hundred
\* ties only when it is a multiple of 1/8, which a double holds exactly.)
Round2(x) ==
    IF x[2] = 0 THEN ZeroDivisionError
    ELSE LET q == (x[1] * 100) \div x[2]
             r == (x[1] * 100) % x[2]
         IN  IF 2 * r < x[2] THEN <<q, 100>>
             ELSE IF 2 * r > x[2] THEN <<q + 1, 100>>
             ELSE IF q % 2 = 0 THEN <<q, 100>>
             ELSE <<q + 1, 100>>

\* the labels the model's values get, in code point order
LabelOrder == <<"NoneType", "ObjectId", "array", "bool", "datetime", "float",
                "int", "object", "string">>

\* the parts "t=c" of sorted(type_counts.items()), joined by "; "
types_summary(p) ==
    LET has(t) == t \in DOMAIN p.type_counts
        part(t) == <<t, "=", p.type_counts[t]>>
        RECURSIVE join(_)
        join(i) ==
            IF i > Len(LabelOrder) THEN <<>>
            ELSE IF ~has(LabelOrder[i]) THEN join(i + 1)
            ELSE LET rest == join(i + 1)
                 IN  IF rest = <<>> THEN <<part(LabelOrder[i])>>
                     ELSE <<part(LabelOrder[i]), "; ">> \o rest
    IN  join(1)

\* the row write_schema_profile_csv writes for p
CsvRow(p) ==
    [field_name |-> p.field,
     total_docs |-> p.total_docs,
     present_count |-> p.present_count,
     non_null_count |-> p.non_null_count,
     missing_count |-> missing_count(p),
     missing_pct |-> Round2(missing_pct(p)),
     types_summary |-> types_summary(p)]

\* -------------------------------------------------------------- scan limit
\* scan_limit: int | None; NoLimit is None, <<n>> the int n
NoLimit == <<>>

\* mutant: the loop stops one document early
LimitReached_OffByOne(limit, count) ==
    limit # NoLimit /\ limit[1] > 0 /\ count >= limit[1]

\* scan_limit is not None and scan_limit > 0 and count > scan_limit
LimitReached(limit, count) ==
    limit # NoLimit /\ limit[1] > 0 /\ count > limit[1]

\* run: args.scan_limit if args.scan_limit and args.scan_limit > 0 else None
NormalizeScanLimit(arg) ==
    IF arg[1] # 0 /\ arg[1] > 0 THEN arg ELSE NoLimit

\* ------------------------------------------ the two functions, call to return
\* discover_fields: the loop from document i on, count documents pulled so far
RECURSIVE DiscoverLoop(_, _, _, _, _)
DiscoverLoop(source, limit, i, cnt, flds) ==
    IF i > Len(source) THEN flds
    ELSE IF LimitReached(limit, cnt + 1) THEN flds
    ELSE DiscoverLoop(source, limit, i + 1, cnt + 1, flds \cup PathsOf(source[i]))

\* discover_fields(coll, scan_limit) over a source that raises nothing
discover_fields(source, limit) == Sorted(DiscoverLoop(source, limit, 1, 0, {}))

\* profile_collection: the loop from document i on; <<total_docs, stats>> at its end
RECURSIVE ProfileLoop(_, _, _, _, _)
ProfileLoop(source, limit, i, total, st) ==
    IF i > Len(source) THEN <<total, st>>
    ELSE IF LimitReached(limit, total + 1) THEN <<total + 1, st>>
    ELSE ProfileLoop(source, limit, i + 1, total + 1, ProfileDocument(st, source[i]))

\* profile_collection(coll, scan_limit) over a source that raises nothing
profile_collection(source, limit) ==
    LET end == ProfileLoop(source, limit, 1, 0, EmptyStats)
    IN  SortByField(BuildProfiles(end[2], end[1]))

\* --------------------------------------------------------------- documents
K_id == <<"i", "d">>
K_tags == <<"t", "a", "g", "s">>
K_nested == <<"n", "e", "s", "t", "e", "d">>
K_opts == <<"o", "p", "t", "s">>
K_x == <<"x">>
K_y == <<"y">>
K_k == <<"k">>
K_a == <<"a">>
K_b == <<"b">>
K_empty == <<>>

\* {"id": 1, "tags": ["a"]}
Doc1 == PyDict(<< <<K_id, PyInt("1")>>, <<K_tags, PyList(<<PyStr("a")>>)>> >>)

\* {"id": 2}
Doc2 == PyDict(<< <<K_id, PyInt("2")>> >>)

\* {"id": 3, "tags": ["a", "b"], "nested": {"x": None}}
Doc3 == PyDict(<< <<K_id, PyInt("3")>>,
                  <<K_tags, PyList(<<PyStr("a"), PyStr("b")>>)>>,
                  <<K_nested, PyDict(<< <<K_x, None>> >>)>> >>)

\* {"opts": [{"k": 1}, {"k": "s"}, {"k": True}]}
DocArrayOfObjects ==
    PyDict(<< <<K_opts, PyList(<< PyDict(<< <<K_k, PyInt("1")>> >>),
                                  PyDict(<< <<K_k, PyStr("s")>> >>),
                                  PyDict(<< <<K_k, PyBool("True")>> >>) >>)>> >>)

\* {"opts": [[{"x": 1.5}], {"y": ObjectId(..)}, None], "a": datetime(..)}
DocNestedArrays ==
    PyDict(<< <<K_opts, PyList(<< PyList(<< PyDict(<< <<K_x, PyFloat("1.5")>> >>) >>),
                                  PyDict(<< <<K_y, PyObjectId("5f")>> >>),
                                  None >>)>>,
              <<K_a, PyDatetime("2020")>> >>)

\* {"": [{"x": 1}], "x": None}
DocEmptyKey ==
    PyDict(<< <<K_empty, PyList(<< PyDict(<< <<K_x, PyInt("1")>> >>) >>)>>,
              <<K_x, None>> >>)

\* {"opts": [{"x": 1}, {"y": 2}]}
DocOptsXY ==
    PyDict(<< <<K_opts, PyList(<< PyDict(<< <<K_x, PyInt("1")>> >>),
                                  PyDict(<< <<K_y, PyInt("2")>> >>) >>)>> >>)

\* {"a": {"b": 1}}
DocAB == PyDict(<< <<K_a, PyDict(<< <<K_b, PyInt("1")>> >>)>> >>)

\* {"tags": ["a", "b"]}
DocTagsAB == PyDict(<< <<K_tags, PyList(<<PyStr("a"), PyStr("b")>>)>> >>)

\* [{"x": 1}, "a", [None]]: an array at the entry point
RootArray == PyList(<< PyDict(<< <<K_x, PyInt("1")>> >>), PyStr("a"), PyList(<<None>>) >>)

DocPool == {Doc1, Doc2, Doc3, DocArrayOfObjects, DocNestedArrays, DocEmptyKey}

RECURSIVE SeqsUpTo(_, _)
SeqsUpTo(S, n) ==
    IF n = 0 THEN {<<>>}
    ELSE LET shorter == SeqsUpTo(S, n - 1)
         IN  shorter \cup {Append(q, d) : q \in {r \in shorter : Len(r) = n - 1}, d \in S}

Collections == SeqsUpTo(DocPool, MaxDocs)

\* { "a.b": 1 }
DocDottedKey == PyDict(<< <<K_a \o <<".">> \o K_b, PyInt("1")>> >>)

\* sources of one value: the documents of the examples, and values that are
\* no object at the entry point of the traversal
EntryValues ==
    {DocOptsXY, DocAB, DocTagsAB, DocDottedKey, RootArray, None, PyStr("a")}

SingleSources == {<<v>> : v \in EntryValues}

IntLimits == {<<n>> : n \in (0 - 1)..MaxLimit}

\* ------------------------------------------------------------------- state
VARIABLES
    coll,         \* the documents coll.find({}) returns, in cursor order
    scan_limit,   \* args.scan_limit in run, then the scan_limit argument
    pc,           \* position in run / discover_fields / profile_collection
    cursor,       \* number of documents pulled from the current cursor
    count,        \* discover_fields: count
    fields,       \* discover_fields: fields
    discovered,   \* the list discover_fields returned
    total_docs,   \* profile_collection: total_docs
    stats,        \* profile_collection: stats
    profiles,     \* the list profile_collection returned
    d_traversed,  \* history: cursor positions discover_fields traversed
    p_traversed,  \* history: cursor positions profile_collection traversed
    again,        \* the two functions are being called a second time
    prev_discovered, \* history: the list the first discover_fields returned
    prev_profiles,   \* history: the list the first profile_collection returned
    src_error,    \* history: what the cursor raised: <<exception, pull, function>>
    error,        \* the exception the call ended with
    csv_rows,     \* write_schema_profile_csv: the rows written
    fetch,        \* crawler: the fetch_one tasks
    sem,          \* crawler: the permits left in the semaphore
    completed,    \* crawler: the finished tasks, in the order they finished
    crawl         \* crawler: main's loop position, counters and rows

wvars == <<again, prev_discovered, prev_profiles, src_error, error, csv_rows>>

cvars == <<fetch, sem, completed, crawl>>

vars == <<coll, scan_limit, pc, cursor, count, fields, discovered, total_docs,
          stats, profiles, d_traversed, p_traversed, wvars, cvars>>

NoError == <<>>

\* nothing was called twice, raised or written yet
WorkflowIdle ==
    /\ again = FALSE
    /\ prev_discovered = <<>>
    /\ prev_profiles = <<>>
    /\ src_error = NoError
    /\ error = NoError
    /\ csv_rows = <<>>

\* the crawler is not running
CrawlerIdle ==
    /\ fetch = <<>>
    /\ sem = 0
    /\ completed = <<>>
    /\ crawl = [pc |-> "idle"]

\* run() is entered with an int from argparse; the two functions are also
\* called directly with any int or None
InitOn(sources) ==
    /\ coll \in sources
    /\ \/ pc = "run" /\ scan_limit \in IntLimits
       \/ pc = "discover_start" /\ scan_limit \in IntLimits \cup {NoLimit}
    /\ cursor = 0
    /\ count = 0
    /\ fields = {}
    /\ discovered = <<>>
    /\ total_docs = 0
    /\ stats = EmptyStats
    /\ profiles = <<>>
    /\ d_traversed = {}
    /\ p_traversed = {}
    /\ WorkflowIdle
    /\ CrawlerIdle

Init == InitOn(Collections)

\* run: normalize scan_limit semantics
Run ==
    /\ pc = "run"
    /\ scan_limit' = NormalizeScanLimit(scan_limit)
    /\ pc' = "discover_start"
    /\ UNCHANGED <<coll, cursor, count, fields, discovered, total_docs, stats,
                   profiles, d_traversed, p_traversed>>
    /\ UNCHANGED <<wvars, cvars>>

\* discover_fields: fields = set(); cursor = coll.find(...); count = 0
DiscoverStart ==
    /\ pc = "discover_start"
    /\ fields' = {}
    /\ cursor' = 0
    /\ count' = 0
    /\ d_traversed' = {}
    /\ pc' = "discover_loop"
    /\ UNCHANGED <<coll, scan_limit, discovered, total_docs, stats, profiles,
                   p_traversed>>
    /\ UNCHANGED <<wvars, cvars>>

\* discover_fields: one iteration of `for doc in cursor`
DiscoverDoc ==
    /\ pc = "discover_loop"
    /\ cursor < Len(coll)
    /\ cursor' = cursor + 1
    /\ count' = count + 1
    /\ IF LimitReached(scan_limit, count')
       THEN /\ pc' = "discover_return"
            /\ UNCHANGED <<fields, d_traversed>>
       ELSE /\ fields' = fields \cup PathsOf(coll[cursor'])
            /\ d_traversed' = d_traversed \cup {cursor'}
            /\ pc' = "discover_loop"
    /\ UNCHANGED <<coll, scan_limit, discovered, total_docs, stats, profiles,
                   p_traversed>>
    /\ UNCHANGED <<wvars, cvars>>

\* discover_fields: the cursor is exhausted
DiscoverExhausted ==
    /\ pc = "discover_loop"
    /\ cursor = Len(coll)
    /\ pc' = "discover_return"
    /\ UNCHANGED <<coll, scan_limit, cursor, count, fields, discovered,
                   total_docs, stats, profiles, d_traversed, p_traversed>>
    /\ UNCHANGED <<wvars, cvars>>

\* discover_fields: return sorted(fields)
DiscoverReturn ==
    /\ pc = "discover_return"
    /\ discovered' = Sorted(fields)
    /\ pc' = "profile_start"
    /\ UNCHANGED <<coll, scan_limit, cursor, count, fields, total_docs, stats,
                   profiles, d_traversed, p_traversed>>
    /\ UNCHANGED <<wvars, cvars>>

\* mutant: the counter map of the earlier call is kept
ProfileStart_KeepsStats ==
    /\ pc = "profile_start"
    /\ total_docs' = 0
    /\ cursor' = 0
    /\ p_traversed' = {}
    /\ pc' = "profile_loop"
    /\ UNCHANGED <<coll, scan_limit, count, fields, discovered, profiles,
                   d_traversed, stats>>
    /\ UNCHANGED <<wvars, cvars>>

\* profile_collection: stats = defaultdict(...); total_docs = 0; cursor = ...
ProfileStart ==
    /\ pc = "profile_start"
    /\ stats' = EmptyStats
    /\ total_docs' = 0
    /\ cursor' = 0
    /\ p_traversed' = {}
    /\ pc' = "profile_loop"
    /\ UNCHANGED <<coll, scan_limit, count, fields, discovered, profiles,
                   d_traversed>>
    /\ UNCHANGED <<wvars, cvars>>

\* mutant: the loop breaks on the document that reaches the limit
ProfileDoc_BreaksEarly ==
    /\ pc = "profile_loop"
    /\ cursor < Len(coll)
    /\ cursor' = cursor + 1
    /\ total_docs' = total_docs + 1
    /\ IF LimitReached(scan_limit, total_docs' + 1)
       THEN /\ pc' = "profile_return"
            /\ UNCHANGED <<stats, p_traversed>>
       ELSE /\ stats' = ProfileDocument(stats, coll[cursor'])
            /\ p_traversed' = p_traversed \cup {cursor'}
            /\ pc' = "profile_loop"
    /\ UNCHANGED <<coll, scan_limit, count, fields, discovered, profiles,
                   d_traversed>>
    /\ UNCHANGED <<wvars, cvars>>

\* profile_collection: one iteration of `for doc in cursor`
ProfileDoc ==
    /\ pc = "profile_loop"
    /\ cursor < Len(coll)
    /\ cursor' = cursor + 1
    /\ total_docs' = total_docs + 1
    /\ IF LimitReached(scan_limit, total_docs')
       THEN /\ pc' = "profile_return"
            /\ UNCHANGED <<stats, p_traversed>>
       ELSE /\ stats' = ProfileDocument(stats, coll[cursor'])
            /\ p_traversed' = p_traversed \cup {cursor'}
            /\ pc' = "profile_loop"
    /\ UNCHANGED <<coll, scan_limit, count, fields, discovered, profiles,
                   d_traversed>>
    /\ UNCHANGED <<wvars, cvars>>

\* profile_collection: the cursor is exhausted
ProfileExhausted ==
    /\ pc = "profile_loop"
    /\ cursor = Len(coll)
    /\ pc' = "profile_return"
    /\ UNCHANGED <<coll, scan_limit, cursor, count, fields, discovered,
                   total_docs, stats, profiles, d_traversed, p_traversed>>
    /\ UNCHANGED <<wvars, cvars>>

\* profile_collection: build the FieldProfile list, sort it, return it
ProfileReturn ==
    /\ pc = "profile_return"
    /\ profiles' = SortByField(BuildProfiles(stats, total_docs))
    /\ pc' = "done"
    /\ UNCHANGED <<coll, scan_limit, cursor, count, fields, discovered,
                   total_docs, stats, d_traversed, p_traversed>>
    /\ UNCHANGED <<wvars, cvars>>

\* ------------------------------------------------------ the whole workflow
\* the exceptions a pymongo cursor raises while it is iterated
SourceErrors == {"AutoReconnect", "OperationFailure"}

\* discover_fields: `for doc in cursor` raises at the next pull; nothing in
\* discover_fields or run catches it
DiscoverSourceRaises ==
    /\ pc = "discover_loop"
    /\ \E exc \in SourceErrors :
        /\ src_error' = <<exc, cursor + 1, "discover_fields">>
        /\ error' = exc
    /\ cursor' = cursor + 1
    /\ pc' = "raised"
    /\ UNCHANGED <<coll, scan_limit, count, fields, discovered, total_docs,
                   stats, profiles, d_traversed, p_traversed>>
    /\ UNCHANGED <<again, prev_discovered, prev_profiles, csv_rows, cvars>>

\* mutant: the error ends the loop and what was accumulated is returned
ProfileSourceRaises_Swallowed ==
    /\ pc = "profile_loop"
    /\ \E exc \in SourceErrors :
        src_error' = <<exc, cursor + 1, "profile_collection">>
    /\ cursor' = cursor + 1
    /\ pc' = "profile_return"
    /\ UNCHANGED <<coll, scan_limit, count, fields, discovered, total_docs,
                   stats, profiles, d_traversed, p_traversed>>
    /\ UNCHANGED <<again, prev_discovered, prev_profiles, csv_rows, error, cvars>>

\* profile_collection: `for doc in cursor` raises at the next pull; nothing in
\* profile_collection or run catches it
ProfileSourceRaises ==
    /\ pc = "profile_loop"
    /\ \E exc \in SourceErrors :
        /\ src_error' = <<exc, cursor + 1, "profile_collection">>
        /\ error' = exc
    /\ cursor' = cursor + 1
    /\ pc' = "raised"
    /\ UNCHANGED <<coll, scan_limit, count, fields, discovered, total_docs,
                   stats, profiles, d_traversed, p_traversed>>
    /\ UNCHANGED <<again, prev_discovered, prev_profiles, csv_rows, cvars>>

\* write_schema_profile_csv: one row per profile, in the order given
WriteSchemaProfileCsv ==
    /\ pc \in {"done", "profiles_given"}
    /\ csv_rows' = [i \in 1..Len(profiles) |-> CsvRow(profiles[i])]
    /\ pc' = IF pc = "done" THEN "written" ELSE "written_given"
    /\ UNCHANGED <<coll, scan_limit, cursor, count, fields, discovered,
                   total_docs, stats, profiles, d_traversed, p_traversed>>
    /\ UNCHANGED <<again, prev_discovered, prev_profiles, src_error, error, cvars>>

\* the two functions are called once more, on the same documents with the
\* same scan limit
CallAgain ==
    /\ pc = "written"
    /\ ~again
    /\ again' = TRUE
    /\ prev_discovered' = discovered
    /\ prev_profiles' = profiles
    /\ pc' = "discover_start"
    /\ UNCHANGED <<coll, scan_limit, cursor, count, fields, discovered,
                   total_docs, stats, profiles, d_traversed, p_traversed>>
    /\ UNCHANGED <<src_error, error, csv_rows, cvars>>

Next ==
    \/ Run
    \/ DiscoverStart
    \/ DiscoverDoc
    \/ DiscoverExhausted
    \/ DiscoverReturn
    \/ ProfileStart
    \/ ProfileDoc
    \/ ProfileExhausted
    \/ ProfileReturn

Spec == Init /\ [][Next]_vars

\* the collections whose documents and keys are reordered
OrderCollections ==
    SeqsUpTo({Doc1, Doc3, DocArrayOfObjects, DocEmptyKey}, MaxDocs)

InitOrder == InitOn(OrderCollections)

\* the sources whose entries are objects, arrays and scalars
EntrySources ==
    SingleSources \cup
        SeqsUpTo({Doc3, DocArrayOfObjects, DocNestedArrays, DocEmptyKey}, MaxDocs)

InitEntry == InitOn(EntrySources)

SpecEntry == InitEntry /\ [][Next]_vars

SpecOrder == InitOrder /\ [][Next]_vars

\* FieldProfile objects constructed directly: a field present in present of
\* total documents
GivenProfile(total, present) ==
    [field |-> K_a, total_docs |-> total, present_count |-> present,
     non_null_count |-> present,
     type_counts |-> IF present = 0 THEN EmptyCounter
                     ELSE [t \in {"int"} |-> present]]

GivenProfiles ==
    UNION {{<<GivenProfile(total, present)>> : present \in 0..total} :
             total \in 0..MaxTotal}

\* write_schema_profile_csv is handed profiles built by the caller
InitGiven ==
    /\ pc = "profiles_given"
    /\ profiles \in GivenProfiles
    /\ coll = <<>>
    /\ scan_limit = NoLimit
    /\ cursor = 0
    /\ count = 0
    /\ fields = {}
    /\ discovered = <<>>
    /\ total_docs = 0
    /\ stats = EmptyStats
    /\ d_traversed = {}
    /\ p_traversed = {}
    /\ WorkflowIdle
    /\ CrawlerIdle

\* the collections the whole workflow is run on
WorkflowCollections == SeqsUpTo({Doc1, Doc3, DocNestedArrays}, MaxDocs)

InitWorkflow == InitOn(WorkflowCollections) \/ InitGiven

NextWorkflow ==
    \/ Next
    \/ DiscoverSourceRaises
    \/ ProfileSourceRaises
    \/ WriteSchemaProfileCsv
    \/ CallAgain

SpecWorkflow == InitWorkflow /\ [][NextWorkflow]_vars

\* ------------------------------------------------------ product name crawler
BATCH_SIZE == 500

\* a URL is its host and the non-empty segments of its path, each cut at its
\* first "."; the empty string has neither
NoUrl == [host |-> "", parts |-> <<>>]

Url(parts) == [host |-> "shop", parts |-> parts]

\* slug.replace("-", " ").replace("_", " ").strip().title() on the segments
\* of the input
Titled == ("ring-a" :> "Ring A" @@ "ring_c" :> "Ring C" @@ "-" :> "")

\* slug_to_name: the titled last segment, or None (a falsy name, "")
slug_to_name(url) ==
    IF url = NoUrl THEN ""
    ELSE IF url.parts = <<>> THEN ""
    ELSE Titled[url.parts[Len(url.parts)]]

\* the rows of product_id_urls.csv: p1 twice, p4 without a URL, p2 with a URL
\* that has no path
InputRows ==
    << [product_id |-> "p1", url |-> Url(<<"products", "ring-a">>)],
       [product_id |-> "p2", url |-> Url(<<>>)],
       [product_id |-> "p1", url |-> Url(<<"ring_c">>)],
       [product_id |-> "p4", url |-> NoUrl],
       [product_id |-> "p3", url |-> Url(<<"ring_c">>)] >>

InputFiles == {InputRows, SubSeq(InputRows, 1, 2)}

\* pairs.append((pid, url)) for the rows with a pid, a url and a pid not seen
RECURSIVE LoadPairs(_, _, _)
LoadPairs(rows, seen, pairs) ==
    IF rows = <<>> THEN pairs
    ELSE LET pid == Head(rows).product_id
             url == Head(rows).url
         IN  IF pid # "" /\ url # NoUrl /\ pid \notin seen
             THEN LoadPairs(Tail(rows), seen \cup {pid},
                            Append(pairs, [pid |-> pid, url |-> url]))
             ELSE LoadPairs(Tail(rows), seen, pairs)

\* how one request can end: a 200 page with a named product, with a product
\* without name, without react_data; a 404; another status; an exception
\* (raised by the request, or while the 200 page is read and parsed)
Outcomes == {"200 named", "200 unnamed", "200 no react_data", "404", "500",
             "exception"}

NoData == <<>>

\* parse_react_data on the page of pid
PageData(pid, outcome) ==
    IF outcome = "200 named" THEN <<[product_id |-> pid, name |-> "Name"]>>
    ELSE IF outcome = "200 unnamed" THEN <<[product_id |-> pid, name |-> ""]>>
    ELSE NoData

\* what fetch_one returns after an attempt that ends it
Returned(pid, attempt, outcome) ==
    IF outcome \in {"200 named", "200 unnamed", "200 no react_data"}
    THEN <<PageData(pid, outcome),
           IF attempt = 1 THEN "HTTP 200 attempt 1" ELSE "HTTP 200 attempt 2">>
    ELSE IF outcome = "404" THEN <<NoData, "HTTP 404">>
    ELSE IF outcome = "500" THEN <<NoData, "HTTP 500">>
    ELSE <<NoData, "Exception">>

\* the attempt ends fetch_one: a 200, a 404, or the second attempt
Returns(attempt, outcome) == outcome \notin {"500", "exception"} \/ attempt >= 2

\* main: read the input, set the counters, create the semaphore, open the
\* first output file
MainLoadPairs ==
    /\ crawl.pc = "load"
    /\ crawl' = [pc |-> "start", input |-> crawl.input,
                 pairs |-> LoadPairs(crawl.input, {}, <<>>),
                 i |-> 0, success |-> 0, fail |-> 0,
                 file_idx |-> 1, current_rows |-> 0,
                 rows |-> <<>>, handled |-> <<>>]
    /\ sem' = CONCURRENCY
    /\ UNCHANGED <<fetch, completed>>
    /\ UNCHANGED <<coll, scan_limit, pc, cursor, count, fields, discovered,
                   total_docs, stats, profiles, d_traversed, p_traversed, wvars>>

\* main: as_completed schedules one fetch_one per pair
MainStartTasks ==
    /\ crawl.pc = "start"
    /\ fetch' = [t \in 1..Len(crawl.pairs) |->
                    [pc |-> "pending", outcomes |-> <<>>, result |-> <<>>]]
    /\ crawl' = [crawl EXCEPT !.pc = "loop"]
    /\ UNCHANGED <<sem, completed>>
    /\ UNCHANGED <<coll, scan_limit, pc, cursor, count, fields, discovered,
                   total_docs, stats, profiles, d_traversed, p_traversed, wvars>>

\* fetch_one: async with sem
FetchAcquire(t) ==
    /\ fetch[t].pc = "pending"
    /\ sem > 0
    /\ sem' = sem - 1
    /\ fetch' = [fetch EXCEPT ![t].pc = "inside"]
    /\ UNCHANGED <<completed, crawl>>
    /\ UNCHANGED <<coll, scan_limit, pc, cursor, count, fields, discovered,
                   total_docs, stats, profiles, d_traversed, p_traversed, wvars>>

\* mutant: a 404 at the first attempt is retried like any other failure
FetchAttempt_RetriesAfter404(t) ==
    /\ fetch[t].pc = "inside"
    /\ \E outcome \in Outcomes :
        LET attempt == Len(fetch[t].outcomes) + 1
        IN  IF Returns(attempt, outcome) /\ ~(outcome = "404" /\ attempt < 2)
            THEN /\ fetch' = [fetch EXCEPT
                        ![t].pc = "returned",
                        ![t].outcomes = Append(@, outcome),
                        ![t].result = Returned(crawl.pairs[t].pid, attempt, outcome)]
                 /\ sem' = sem + 1
                 /\ completed' = Append(completed, t)
            ELSE /\ fetch' = [fetch EXCEPT ![t].outcomes = Append(@, outcome)]
                 /\ UNCHANGED <<sem, completed>>
    /\ UNCHANGED crawl
    /\ UNCHANGED <<coll, scan_limit, pc, cursor, count, fields, discovered,
                   total_docs, stats, profiles, d_traversed, p_traversed, wvars>>

\* fetch_one: one pass of `for attempt in range(1, 3)`: the request and what
\* follows it, a return (which leaves `async with sem`) or the sleep before
\* the second attempt
FetchAttempt(t) ==
    /\ fetch[t].pc = "inside"
    /\ \E outcome \in Outcomes :
        LET attempt == Len(fetch[t].outcomes) + 1
        IN  IF Returns(attempt, outcome)
            THEN /\ fetch' = [fetch EXCEPT
                        ![t].pc = "returned",
                        ![t].outcomes = Append(@, outcome),
                        ![t].result = Returned(crawl.pairs[t].pid, attempt, outcome)]
                 /\ sem' = sem + 1
                 /\ completed' = Append(completed, t)
            ELSE /\ fetch' = [fetch EXCEPT ![t].outcomes = Append(@, outcome)]
                 /\ UNCHANGED <<sem, completed>>
    /\ UNCHANGED crawl
    /\ UNCHANGED <<coll, scan_limit, pc, cursor, count, fields, discovered,
                   total_docs, stats, profiles, d_traversed, p_traversed, wvars>>

\* main: one pass of `for (pid, url), coro in zip(pairs, as_completed(tasks))`:
\* the next pair of the input with the result of the next fetch to finish
MainHandleResult ==
    /\ crawl.pc = "loop"
    /\ crawl.i < Len(crawl.pairs)
    /\ Len(completed) > crawl.i
    /\ LET pair == crawl.pairs[crawl.i + 1]
           task == completed[crawl.i + 1]
           data == fetch[task].result[1]
           seen == [crawl EXCEPT !.i = @ + 1,
                                 !.handled = Append(@, [pid |-> pair.pid, task |-> task])]
           written(row) ==
               [seen EXCEPT !.success = @ + 1,
                            !.rows = Append(@, row),
                            !.current_rows = IF @ + 1 >= BATCH_SIZE THEN 0 ELSE @ + 1,
                            !.file_idx = IF crawl.current_rows + 1 >= BATCH_SIZE
                                         THEN @ + 1 ELSE @]
       IN  IF data # NoData /\ data[1].name # ""
           THEN crawl' = written([product_id |-> data[1].product_id,
                                  name |-> data[1].name,
                                  source |-> "react_data",
                                  file |-> crawl.file_idx])
           ELSE IF slug_to_name(pair.url) = ""
           THEN crawl' = [seen EXCEPT !.fail = @ + 1]
           ELSE crawl' = written([product_id |-> pair.pid,
                                  name |-> slug_to_name(pair.url),
                                  source |-> "slug",
                                  file |-> crawl.file_idx])
    /\ UNCHANGED <<fetch, sem, completed>>
    /\ UNCHANGED <<coll, scan_limit, pc, cursor, count, fields, discovered,
                   total_docs, stats, profiles, d_traversed, p_traversed, wvars>>

\* main: the pairs are exhausted; close the file and log the totals
MainFinish ==
    /\ crawl.pc = "loop"
    /\ crawl.i = Len(crawl.pairs)
    /\ crawl' = [crawl EXCEPT !.pc = "done"]
    /\ UNCHANGED <<fetch, sem, completed>>
    /\ UNCHANGED <<coll, scan_limit, pc, cursor, count, fields, discovered,
                   total_docs, stats, profiles, d_traversed, p_traversed, wvars>>

InitCrawler ==
    /\ crawl \in {[pc |-> "load", input |-> rows] : rows \in InputFiles}
    /\ fetch = <<>>
    /\ sem = 0
    /\ completed = <<>>
    /\ pc = "idle"
    /\ coll = <<>>
    /\ scan_limit = NoLimit
    /\ cursor = 0
    /\ count = 0
    /\ fields = {}
    /\ discovered = <<>>
    /\ total_docs = 0
    /\ stats = EmptyStats
    /\ profiles = <<>>
    /\ d_traversed = {}
    /\ p_traversed = {}
    /\ WorkflowIdle

NextCrawler ==
    \/ MainLoadPairs
    \/ MainStartTasks
    \/ \E t \in DOMAIN fetch : FetchAcquire(t)
    \/ \E t \in DOMAIN fetch : FetchAttempt(t)
    \/ MainHandleResult
    \/ MainFinish

SpecCrawler == InitCrawler /\ [][NextCrawler]_vars

\* ================================================================== claims
\* the three documents of the end-to-end scenario, in order
Scenario == <<Doc1, Doc2, Doc3>>

PositiveLimit == scan_limit # NoLimit /\ scan_limit[1] > 0

\* the number of documents a scan bounded as documented runs the traversal on
ExpectedScanned ==
    IF PositiveLimit /\ scan_limit[1] < Len(coll) THEN scan_limit[1] ELSE Len(coll)

InProfile == pc \in {"profile_loop", "profile_return", "done"}

AfterDiscoverLoop ==
    pc \in {"discover_return", "profile_start", "profile_loop", "profile_return", "done"}

\* the pairs the traversal yields for the document at cursor position i
PairsAt(i) == iter_field_paths(coll[i], NoPrefix)

\* every path some document of the collection yields, and every counted one
KnownPaths == UNION {PathsOf(coll[i]) : i \in 1..Len(coll)} \cup DOMAIN stats.at

\* the pairs yielded over the profiled documents, in cursor order
RECURSIVE YieldedUpTo(_)
YieldedUpTo(n) ==
    IF n = 0 THEN <<>>
    ELSE YieldedUpTo(n - 1) \o (IF n \in p_traversed THEN PairsAt(n) ELSE <<>>)

Yielded == YieldedUpTo(Len(coll))

\* the positions in a sequence of yielded pairs that carry path p
OccurrencesOf(all, p) == {j \in 1..Len(all) : all[j][1] = p}

PresentCountOf(p) == IF p \in DOMAIN stats.at THEN stats.at[p].present_count ELSE 0

NonNullCountOf(p) == IF p \in DOMAIN stats.at THEN stats.at[p].non_null_count ELSE 0

TypeCountOf(p, label) ==
    IF p \in DOMAIN stats.at /\ label \in DOMAIN stats.at[p].type_counts
    THEN stats.at[p].type_counts[label] ELSE 0

TypeLabels ==
    {"null", "NoneType", "bool", "int", "float", "string", "ObjectId", "object",
     "array", "list", "dict", "str", "datetime"}

\* the returned profile of a path, as a set (empty when the path has none)
ProfilesOf(p) == {profiles[i] : i \in {j \in 1..Len(profiles) : profiles[j].field = p}}

P_tags == K_tags
P_nested_x == K_nested \o <<".">> \o K_x
P_opts_k == K_opts \o <<".">> \o K_k

\* C1: every returned FieldProfile carries total_docs = the number of documents
\* the traversal ran on = min(scan_limit, N) for a positive scan_limit, N otherwise
C1_TotalDocsIsDocumentsTraversed ==
    pc = "done" =>
        \A i \in 1..Len(profiles) :
            /\ profiles[i].total_docs = Cardinality(p_traversed)
            /\ profiles[i].total_docs = ExpectedScanned

\* C2: present_count(p) is the number of processed documents whose traversal
\* yields p at least once, after every processed document and in the result
C2_PresentCountOncePerDocument ==
    /\ InProfile =>
          \A p \in KnownPaths :
              PresentCountOf(p) =
                  Cardinality({i \in p_traversed : p \in PathsOf(coll[i])})
    /\ pc = "done" =>
          \A i \in 1..Len(profiles) :
              profiles[i].present_count =
                  Cardinality({d \in p_traversed : profiles[i].field \in PathsOf(coll[d])})

\* a document with an array of 3 objects all having key k was profiled, and
\* opts.k was counted present once
C2_Witness ==
    /\ pc = "done"
    /\ \E d \in p_traversed : coll[d] = DocArrayOfObjects
    /\ Cardinality({d \in p_traversed : P_opts_k \in PathsOf(coll[d])}) = 1
    /\ \E pr \in ProfilesOf(P_opts_k) : pr.present_count = 1

ScenarioProfiled == pc = "done" /\ coll = Scenario /\ ~PositiveLimit

\* C4 as stated: in the scenario tags has non_null_count 3 and type_counts
\* {string: 3}, one occurrence per scalar array element
C4_TagsCountsScalarElements ==
    ScenarioProfiled =>
        ProfilesOf(P_tags) =
            {[field |-> P_tags, total_docs |-> 3, present_count |-> 2,
              non_null_count |-> 3, type_counts |-> ("string" :> 3)]}

\* C4 amended: in the scenario tags has total_docs 3, present_count 2,
\* non_null_count 2 and type_counts {array: 2}: the array value is the one
\* occurrence of its path in a document, its scalar elements add none
C4_TagsCountsArrayValues ==
    ScenarioProfiled =>
        ProfilesOf(P_tags) =
            {[field |-> P_tags, total_docs |-> 3, present_count |-> 2,
              non_null_count |-> 2, type_counts |-> ("array" :> 2)]}

C4_Witness ==
    /\ ScenarioProfiled
    /\ p_traversed = {1, 2, 3}
    /\ ProfilesOf(P_tags) # {}

\* the positions of the pairs yielded for path p with a None value
NoneOccurrencesOf(all, p) == {j \in OccurrencesOf(all, p) : all[j][2] = None}

\* C5 as stated: a None value is counted present, under the label null and not
\* in non_null_count; in the scenario nested.x has type_counts {null: 1}
C5_NullLabelIsNull ==
    /\ InProfile =>
          LET all == Yielded
          IN  \A p \in KnownPaths :
                  LET nones == NoneOccurrencesOf(all, p)
                  IN  nones # {} =>
                          /\ PresentCountOf(p) >= 1
                          /\ TypeCountOf(p, "null") = Cardinality(nones)
                          /\ NonNullCountOf(p) =
                                 Cardinality(OccurrencesOf(all, p)) - Cardinality(nones)
    /\ ScenarioProfiled =>
          \E pr \in ProfilesOf(P_nested_x) :
              /\ pr.present_count = 1
              /\ pr.non_null_count = 0
              /\ pr.type_counts = ("null" :> 1)

\* C5 amended: a None value is counted present, under the label NoneType and
\* not in non_null_count; in the scenario nested.x has present_count 1,
\* non_null_count 0 and type_counts {NoneType: 1}
C5_NullLabelIsNoneType ==
    /\ InProfile =>
          LET all == Yielded
          IN  \A p \in KnownPaths :
                  LET nones == NoneOccurrencesOf(all, p)
                  IN  nones # {} =>
                          /\ PresentCountOf(p) >= 1
                          /\ TypeCountOf(p, "NoneType") = Cardinality(nones)
                          /\ NonNullCountOf(p) =
                                 Cardinality(OccurrencesOf(all, p)) - Cardinality(nones)
    /\ ScenarioProfiled =>
          \E pr \in ProfilesOf(P_nested_x) :
              /\ pr.present_count = 1
              /\ pr.non_null_count = 0
              /\ pr.type_counts = ("NoneType" :> 1)

\* the scenario is profiled; its one None value is the 7th pair yielded
C5_Witness ==
    /\ ScenarioProfiled
    /\ NoneOccurrencesOf(Yielded, P_nested_x) = {7}
    /\ ProfilesOf(P_nested_x) # {}

\* the path set of a sequence of yielded pairs
PathSet(pairs) == {pairs[i][1] : i \in 1..Len(pairs)}

\* a list and the lists nested in it, through lists only
RECURSIVE ListsWithin(_)
ListsWithin(arr) ==
    {arr} \cup UNION {ListsWithin(arr.val[i]) :
                        i \in {j \in 1..Len(arr.val) : arr.val[j].type = "list"}}

\* the arrays a traversal of doc reaches, each with the path it is reached at
ArraysReached(doc) ==
    LET pairs == iter_field_paths(doc, NoPrefix)
    IN  UNION {{<<pairs[i][1], a>> : a \in ListsWithin(pairs[i][2])} :
                 i \in {j \in 1..Len(pairs) : pairs[j][2].type = "list"}}

\* the keys of the objects that are elements of arr, through nested arrays
RECURSIVE ElementKeys(_)
ElementKeys(arr) ==
    UNION {IF arr.val[i].type = "dict"
           THEN {arr.val[i].val[k][1] : k \in 1..Len(arr.val[i].val)}
           ELSE IF arr.val[i].type = "list" THEN ElementKeys(arr.val[i])
           ELSE {} : i \in 1..Len(arr.val)}

\* q is path or lies below it
AtOrBelow(q, path) ==
    /\ Len(q) >= Len(path)
    /\ SubSeq(q, 1, Len(path)) = path
    /\ Len(q) > Len(path) => q[Len(path) + 1] = "."

Reordered(arr, perm) == PyList([i \in 1..Len(arr.val) |-> arr.val[perm[i]]])

\* the elements of arr traversed with prefix p give its paths, every key of an
\* element gives the path child(k), every path lies at or below such a path,
\* and no reordering of the elements changes the path set
ArrayMergesAt(p, arr, child(_)) ==
    LET below == PathSet(iter_field_paths(arr, p))
    IN  /\ below = UNION {PathSet(iter_field_paths(arr.val[i], p)) :
                            i \in 1..Len(arr.val)}
        /\ \A k \in ElementKeys(arr) : child(k) \in below
        /\ \A q \in below : \E k \in ElementKeys(arr) : AtOrBelow(q, child(k))
        /\ \A perm \in Permutations(1..Len(arr.val)) :
               PathSet(iter_field_paths(Reordered(arr, perm), p)) = below

OptsXYPaths ==
    PathsOf(DocOptsXY) = {K_opts, K_opts \o <<".">> \o K_x, K_opts \o <<".">> \o K_y}

\* C6 as stated: for every array a traversal reaches at a path p, the paths
\* produced below p are those of its elements traversed with prefix p, at or
\* below p + '.' + key for the keys of the elements, in any order of the
\* elements; {opts: [{x: 1}, {y: 2}]} yields {opts, opts.x, opts.y}
C6_ArrayElementsMergeBelowPath ==
    /\ \A d \in d_traversed \cup p_traversed :
           \A pa \in ArraysReached(coll[d]) :
               ArrayMergesAt(pa[1], pa[2], LAMBDA k : pa[1] \o <<".">> \o k)
    /\ OptsXYPaths

\* C6 amended: as stated for an array reached at a non-empty path p; for an
\* array reached at the empty path (under an empty-string key) the keys of the
\* elements are yielded bare, without a leading '.'
C6_ArrayElementsMergeAtPrefix ==
    /\ \A d \in d_traversed \cup p_traversed :
           \A pa \in ArraysReached(coll[d]) :
               ArrayMergesAt(pa[1], pa[2],
                   LAMBDA k : IF pa[1] = <<>> THEN k ELSE pa[1] \o <<".">> \o k)
    /\ OptsXYPaths

\* a document with an array in an array was traversed, and one with an array
\* under the empty-string key
C6_Witness ==
    /\ \E d \in d_traversed : coll[d] = DocNestedArrays
    /\ \E d \in d_traversed : <<>> \in {pa[1] : pa \in ArraysReached(coll[d])}

\* the keys of the root object of a document
TopLevelKeys(doc) ==
    IF doc.type = "dict" THEN {doc.val[i][1] : i \in 1..Len(doc.val)} ELSE {}

\* the keys of every object in a value, at any depth
RECURSIVE KeysIn(_)
KeysIn(value) ==
    IF value.type = "dict"
    THEN UNION {{value.val[i][1]} \cup KeysIn(value.val[i][2]) : i \in 1..Len(value.val)}
    ELSE IF value.type = "list"
    THEN UNION {KeysIn(value.val[i]) : i \in 1..Len(value.val)}
    ELSE {}

\* the documents of the collection that have no empty-string key
NonEmptyKeyed == {d \in 1..Len(coll) : <<>> \notin KeysIn(coll[d])}

\* C7 as stated: whatever the keys, the empty string among them, no path
\* yielded from a document root, discovered or profiled, is the empty string,
\* and every top-level key is a path of its own
C7_EmptyPathNeverAppears ==
    /\ \A d \in d_traversed \cup p_traversed :
           /\ <<>> \notin PathsOf(coll[d])
           /\ TopLevelKeys(coll[d]) \subseteq PathsOf(coll[d])
    /\ <<>> \notin fields
    /\ <<>> \notin DOMAIN stats.at
    /\ \A i \in 1..Len(discovered) : discovered[i] # <<>>
    /\ \A i \in 1..Len(profiles) : profiles[i].field # <<>>

\* C7 amended: for documents whose keys are non-empty strings no yielded,
\* discovered or profiled path is the empty string, and every top-level key
\* is a path of its own; an empty-string key at the top level is yielded as
\* the empty path
C7_EmptyPathOnlyFromEmptyKey ==
    /\ \A d \in d_traversed \cup p_traversed :
           /\ d \in NonEmptyKeyed => <<>> \notin PathsOf(coll[d])
           /\ TopLevelKeys(coll[d]) \subseteq PathsOf(coll[d])
    /\ d_traversed \subseteq NonEmptyKeyed =>
           /\ <<>> \notin fields
           /\ \A i \in 1..Len(discovered) : discovered[i] # <<>>
    /\ p_traversed \subseteq NonEmptyKeyed =>
           /\ <<>> \notin DOMAIN stats.at
           /\ \A i \in 1..Len(profiles) : profiles[i].field # <<>>

\* documents without an empty-string key were discovered and profiled
C7_Witness ==
    /\ pc = "done"
    /\ Len(profiles) >= 2
    /\ p_traversed # {}
    /\ p_traversed \subseteq NonEmptyKeyed
    /\ d_traversed \subseteq NonEmptyKeyed

\* the paths of the first n documents of the collection
PathsOfFirst(n) == UNION {PathsOf(coll[i]) : i \in 1..n}

\* C8: discover_fields takes the paths of exactly the first min(L, N)
\* documents for a positive scan_limit L, of all N documents otherwise
C8_DiscoverScanBound ==
    /\ AfterDiscoverLoop =>
          /\ d_traversed = 1..ExpectedScanned
          /\ fields = PathsOfFirst(ExpectedScanned)
    /\ pc \in {"profile_start", "profile_loop", "profile_return", "done"} =>
          /\ {discovered[i] : i \in 1..Len(discovered)} = PathsOfFirst(ExpectedScanned)
          /\ ~PositiveLimit =>
                 {discovered[i] : i \in 1..Len(discovered)} = PathsOfFirst(Len(coll))

\* a path of a document past a positive limit was left out of the result
C8_Witness ==
    /\ pc = "profile_start"
    /\ PositiveLimit
    /\ scan_limit[1] < Len(coll)
    /\ \E q \in PathsOf(coll[scan_limit[1] + 1]) :
           q \notin {discovered[i] : i \in 1..Len(discovered)}

\* s comes before t in the order of str: at the first position where they
\* differ s has the smaller character, or s ends there
RECURSIVE LexBefore(_, _)
LexBefore(s, t) ==
    IF t = <<>> THEN FALSE
    ELSE IF s = <<>> THEN TRUE
    ELSE IF Head(s) = Head(t) THEN LexBefore(Tail(s), Tail(t))
    ELSE Ord(Head(s)) < Ord(Head(t))

\* C9: discover_fields returns a strictly increasing list whose elements are
\* the paths yielded from the processed documents; [id, nested, nested.x,
\* tags] for the scenario
C9_DiscoverSortedUnion ==
    pc \in {"profile_start", "profile_loop", "profile_return", "done"} =>
        /\ \A i \in 1..(Len(discovered) - 1) :
               LexBefore(discovered[i], discovered[i + 1])
        /\ {discovered[i] : i \in 1..Len(discovered)} =
               UNION {PathsOf(coll[d]) : d \in d_traversed}
        /\ (coll = Scenario /\ ~PositiveLimit) =>
               discovered = <<K_id, K_nested, P_nested_x, K_tags>>

C9_Witness ==
    /\ pc = "profile_start"
    /\ coll = Scenario
    /\ d_traversed = {1, 2, 3}
    /\ Len(discovered) = 4

\* C10: profile_collection returns one profile per path observed in the
\* processed documents, strictly increasing by field, each with
\* present_count >= 1 and a type_counts entry; an empty scan returns []
C10_OneProfilePerObservedPath ==
    pc = "done" =>
        /\ \A i \in 1..(Len(profiles) - 1) :
               LexBefore(profiles[i].field, profiles[i + 1].field)
        /\ {profiles[i].field : i \in 1..Len(profiles)} =
               UNION {PathsOf(coll[d]) : d \in p_traversed}
        /\ Len(profiles) = Cardinality(UNION {PathsOf(coll[d]) : d \in p_traversed})
        /\ \A i \in 1..Len(profiles) :
               /\ profiles[i].present_count >= 1
               /\ DOMAIN profiles[i].type_counts # {}
        /\ p_traversed = {} => profiles = <<>>

\* several profiles were returned, one of a path that two documents yield
C10_Witness ==
    /\ pc = "done"
    /\ Len(profiles) >= 3
    /\ \E i \in 1..Len(profiles) : profiles[i].present_count >= 2
    /\ \E i \in 1..Len(profiles) : profiles[i].present_count < profiles[i].total_docs

\* the source with its documents in the order perm
Permuted(source, perm) == [i \in 1..Len(source) |-> source[perm[i]]]

\* the scan takes every document of the source
ScanCoversSource == ~PositiveLimit \/ scan_limit[1] >= Len(coll)

\* C11 as stated: for every permutation of the documents and every scan
\* limit, discover_fields and profile_collection return what they return on
\* the original sequence
C11_DocumentOrderIndependent ==
    pc = "done" =>
        \A perm \in Permutations(1..Len(coll)) :
            /\ discover_fields(Permuted(coll, perm), scan_limit) = discovered
            /\ profile_collection(Permuted(coll, perm), scan_limit) = profiles

\* C11 amended: the same, for every scan limit that covers the whole sequence
\* (None, 0, negative, or at least the number of documents); a positive limit
\* below it takes the first documents of the order given
C11_DocumentOrderIndependentFullScan ==
    (pc = "done" /\ ScanCoversSource) =>
        \A perm \in Permutations(1..Len(coll)) :
            /\ discover_fields(Permuted(coll, perm), scan_limit) = discovered
            /\ profile_collection(Permuted(coll, perm), scan_limit) = profiles

\* three different documents were scanned in full under a positive limit
C11_Witness ==
    /\ pc = "done"
    /\ PositiveLimit
    /\ ScanCoversSource
    /\ Len(coll) = 3
    /\ Cardinality({coll[i] : i \in 1..3}) = 3
    /\ p_traversed = {1, 2, 3}

\* the sequences that take their i-th element from the i-th set
RECURSIVE ProductOf(_)
ProductOf(sets) ==
    IF sets = <<>> THEN {<<>>}
    ELSE {<<h>> \o t : h \in Head(sets), t \in ProductOf(Tail(sets))}

\* the values that differ from value in the order of the items of its objects
RECURSIVE KeyReorderings(_)
KeyReorderings(value) ==
    IF value.type = "dict"
    THEN LET n == Len(value.val)
             inner == ProductOf([i \in 1..n |-> KeyReorderings(value.val[i][2])])
         IN  {PyDict([i \in 1..n |-> <<value.val[perm[i]][1], w[perm[i]]>>]) :
                 perm \in Permutations(1..n), w \in inner}
    ELSE IF value.type = "list"
    THEN {PyList(w) :
             w \in ProductOf([i \in 1..Len(value.val) |-> KeyReorderings(value.val[i])])}
    ELSE {value}

\* C12: reordering the key/value pairs of objects, at any depth of any
\* document, changes neither the list discover_fields returns nor the
\* profiles profile_collection returns
C12_KeyOrderIndependent ==
    pc = "done" =>
        \A source \in ProductOf([i \in 1..Len(coll) |-> KeyReorderings(coll[i])]) :
            /\ discover_fields(source, scan_limit) = discovered
            /\ profile_collection(source, scan_limit) = profiles

\* a scanned document has an object of 3 keys, so 6 orders of them
C12_Witness ==
    /\ pc = "done"
    /\ \E d \in p_traversed : coll[d] = Doc3 /\ Cardinality(KeyReorderings(coll[d])) = 6
    /\ \E i \in 1..Len(profiles) : profiles[i].field = P_nested_x

\* --------------------------------------------------------------------- C13
\* C13: when discover_fields and profile_collection are called a second time
\* on the same documents with the same scan limit, each call starts from an
\* empty set and an empty counter map, discover_fields returns the list it
\* returned the first time and profile_collection returns the profiles it
\* returned the first time.
C13_RepeatedCallsAgree ==
    again =>
        /\ (pc = "discover_loop" /\ cursor = 0) => (fields = {} /\ count = 0)
        /\ (pc = "profile_loop" /\ cursor = 0) =>
               (stats = EmptyStats /\ total_docs = 0)
        /\ pc \in {"profile_start", "profile_loop", "profile_return", "done",
                   "written"} => discovered = prev_discovered
        /\ pc \in {"done", "written"} => profiles = prev_profiles

\* the second pair of calls returned, on documents that were counted
C13_Witness ==
    /\ again
    /\ pc = "done"
    /\ Len(coll) >= 2
    /\ Len(prev_profiles) >= 2
    /\ p_traversed # {}

\* --------------------------------------------------------------------- C14
\* the float x is the number n / d
FloatIs(x, n, d) == x[2] # 0 /\ x[1] * d = n * x[2]

\* C14: for every FieldProfile, constructed directly or returned,
\* missing_count is total_docs - present_count and missing_pct is
\* 100 * missing_count / total_docs, and 0 without a division when total_docs
\* is 0; present in 0 of 100 gives 100 and present in 100 of 100 gives 0; the
\* returned profiles have 0 <= missing_count <= total_docs; the written row
\* carries missing_count and missing_pct rounded to the nearest hundredth.
C14_MissingnessArithmetic ==
    /\ \A i \in 1..Len(profiles) :
           LET p == profiles[i]
               pct == missing_pct(p)
           IN  /\ missing_count(p) + p.present_count = p.total_docs
               /\ pct # ZeroDivisionError
               /\ p.total_docs = 0 => FloatIs(pct, 0, 1)
               /\ p.total_docs > 0 =>
                      FloatIs(pct, 100 * (p.total_docs - p.present_count),
                              p.total_docs)
               /\ (p.total_docs = 100 /\ p.present_count = 0) =>
                      FloatIs(pct, 100, 1)
               /\ (p.total_docs = 100 /\ p.present_count = 100) =>
                      FloatIs(pct, 0, 1)
               /\ pc \in {"done", "written"} =>
                      (0 <= missing_count(p) /\ missing_count(p) <= p.total_docs)
    /\ pc \in {"written", "written_given"} =>
           /\ Len(csv_rows) = Len(profiles)
           /\ \A i \in 1..Len(csv_rows) :
                  LET p == profiles[i]
                      row == csv_rows[i]
                      off == row.missing_pct[1] * p.total_docs
                               - 10000 * (p.total_docs - p.present_count)
                  IN  /\ row.missing_count = p.total_docs - p.present_count
                      /\ row.missing_pct[2] = 100
                      /\ p.total_docs = 0 => row.missing_pct[1] = 0
                      /\ p.total_docs > 0 =>
                             (2 * off <= p.total_docs /\ 0 - 2 * off <= p.total_docs)

\* the row of a field present in 0 of 100 documents was written
C14_Witness ==
    /\ pc = "written_given"
    /\ profiles[1].total_docs = 100
    /\ profiles[1].present_count = 0
    /\ csv_rows[1].missing_count = 100
    /\ csv_rows[1].missing_pct = <<10000, 100>>

\* --------------------------------------------------------------------- C15
RECURSIVE ConcatAll(_)
ConcatAll(seqs) ==
    IF seqs = <<>> THEN <<>> ELSE Head(seqs) \o ConcatAll(Tail(seqs))

\* every object in a value, at any depth
RECURSIVE DictsWithin(_)
DictsWithin(value) ==
    IF value.type = "dict"
    THEN {value} \cup UNION {DictsWithin(value.val[i][2]) : i \in 1..Len(value.val)}
    ELSE IF value.type = "list"
    THEN UNION {DictsWithin(value.val[i]) : i \in 1..Len(value.val)}
    ELSE {}

\* the prefixes a traversal is entered with: none, the empty string, a key,
\* a dotted path
Prefixes == {NoPrefix, <<>>, K_a, K_a \o <<".">> \o K_b}

\* key by key: the pair of the key, then the pairs of its object or array
ObjectRule(obj, prefix) ==
    ConcatAll([k \in 1..Len(obj.val) |->
        LET key == obj.val[k][1]
            value == obj.val[k][2]
            path == IF prefix \in {NoPrefix, <<>>} THEN key
                    ELSE prefix \o <<".">> \o key
        IN  <<<<path, value>>>> \o
            (IF value.type \in {"dict", "list"}
             THEN iter_field_paths(value, path) ELSE <<>>)])

\* C15: for every object of a traversed document and every prefix,
\* iter_field_paths yields, key by key, the pair (prefix.key or key, value)
\* directly followed by the pairs of recursing into an object or array value
\* with that path as prefix; {a:{b:1}} is discovered as exactly a and a.b.
C15_ObjectRule ==
    /\ \A d \in d_traversed \cup p_traversed :
           \A obj \in DictsWithin(coll[d]) :
               \A prefix \in Prefixes :
                   iter_field_paths(obj, prefix) = ObjectRule(obj, prefix)
    /\ (coll = <<DocAB>> /\ d_traversed = {1}) =>
           /\ fields = {K_a, K_a \o <<".">> \o K_b}
           /\ AfterDiscoverLoop /\ pc # "discover_return" =>
                  discovered = <<K_a, K_a \o <<".">> \o K_b>>

\* {a:{b:1}} was discovered
C15_Witness ==
    /\ pc = "profile_start"
    /\ coll = <<DocAB>>
    /\ d_traversed = {1}
    /\ Len(discovered) = 2

\* --------------------------------------------------------------------- C16
\* every array in a value, at any depth
RECURSIVE ArraysWithin(_)
ArraysWithin(value) ==
    IF value.type = "dict"
    THEN UNION {ArraysWithin(value.val[i][2]) : i \in 1..Len(value.val)}
    ELSE IF value.type = "list"
    THEN {value} \cup UNION {ArraysWithin(value.val[i]) : i \in 1..Len(value.val)}
    ELSE {}

IsScalar(value) == value.type \notin {"dict", "list"}

OnlyScalars(arr) == \A i \in 1..Len(arr.val) : IsScalar(arr.val[i])

\* C16: in every traversed value a scalar element of an array, None included,
\* adds no pair to what the array yields; a scalar at the entry point yields
\* nothing; a key holding an array of only scalars yields the one pair of the
\* key; {tags:[a,b]} is discovered as exactly tags.
C16_ScalarCollapse ==
    /\ \A d \in d_traversed \cup p_traversed :
           /\ IsScalar(coll[d]) => PairsAt(d) = <<>>
           /\ \A arr \in ArraysWithin(coll[d]) :
                  \A prefix \in Prefixes :
                      /\ iter_field_paths(arr, prefix) =
                             ConcatAll([i \in 1..Len(arr.val) |->
                                 IF IsScalar(arr.val[i]) THEN <<>>
                                 ELSE iter_field_paths(arr.val[i], prefix)])
                      /\ OnlyScalars(arr) =>
                             /\ iter_field_paths(arr, prefix) = <<>>
                             /\ iter_field_paths(PyDict(<< <<K_k, arr>> >>), prefix)
                                    = << <<JoinPath(prefix, K_k), arr>> >>
    /\ (coll = <<DocTagsAB>> /\ d_traversed = {1}) => fields = {K_tags}
    /\ (coll = <<DocTagsAB>> /\ p_traversed = {1}) => DOMAIN stats.at = {K_tags}

\* {tags:[a,b]} was discovered and profiled
C16_Witness ==
    /\ pc = "done"
    /\ coll = <<DocTagsAB>>
    /\ d_traversed = {1}
    /\ p_traversed = {1}
    /\ discovered = <<K_tags>>

\* --------------------------------------------------------------------- C17
\* the Python types get_type_name tests for
RecognizedTypes == {"NoneType", "bool", "int", "float", "str", "ObjectId", "dict", "list"}

\* C17: every value yielded from a profiled document gets one label, a
\* string; a value of no recognized kind gets its type name as label, and its
\* occurrences are counted under that label at their path like any other; a
\* scan of documents holding such values runs to its return.
C17_ClassifierTotal ==
    LET all == Yielded
    IN  /\ \A j \in 1..Len(all) :
               LET value == all[j][2]
               IN  /\ get_type_name(value) \in STRING
                   /\ get_type_name(value) # ""
                   /\ value.type \notin RecognizedTypes =>
                          get_type_name(value) = value.type
        /\ InProfile =>
               \A p \in PathSet(all) :
                   \A t \in {all[j][2].type : j \in 1..Len(all)} \ RecognizedTypes :
                       TypeCountOf(p, t) =
                           Cardinality({j \in OccurrencesOf(all, p) : all[j][2].type = t})
        /\ pc = "done" => Len(profiles) = Cardinality(PathSet(all))

\* a document holding a datetime was profiled and the call returned
C17_Witness ==
    /\ pc = "done"
    /\ \E d \in p_traversed : coll[d] = DocNestedArrays
    /\ \E i \in 1..Len(profiles) : "datetime" \in DOMAIN profiles[i].type_counts

\* --------------------------------------------------------------------- C18
\* what the call that raised would have assigned still holds what it held
NothingReturned ==
    /\ profiles = prev_profiles
    /\ src_error[3] = "discover_fields" => discovered = prev_discovered
    /\ ~again => csv_rows = <<>>

\* C18: the source has raised exactly when the call has ended with an error;
\* that error is the one the source raised, the cursor stays at the pull that
\* raised, and neither a field list nor a profile list was returned.
C18_SourceErrorsPropagate ==
    /\ (pc = "raised") <=> (src_error # NoError)
    /\ src_error = NoError => error = NoError
    /\ src_error # NoError =>
           /\ error = src_error[1]
           /\ cursor = src_error[2]
           /\ NothingReturned

\* the source raised at the second pull of profile_collection, after the
\* first document had been counted
C18_Witness ==
    /\ pc = "raised"
    /\ src_error[3] = "profile_collection"
    /\ src_error[2] = 2
    /\ stats # EmptyStats
    /\ profiles = <<>>

\* --------------------------------------------------------------------- C19
Inside == {t \in DOMAIN fetch : fetch[t].pc = "inside"}

\* C19: a fetch makes at most 2 requests; a second request follows only a
\* first one that ended in a status other than 200 and 404 or in an
\* exception; a fetch that has ended holds a (data, status) pair and no
\* permit; the fetches inside the request section are the permits taken, at
\* most CONCURRENCY.
C19_LimitedRetries ==
    /\ \A t \in DOMAIN fetch :
           LET outs == fetch[t].outcomes
           IN  /\ Len(outs) <= 2
               /\ Len(outs) = 2 => outs[1] \in {"500", "exception"}
               /\ (Len(outs) >= 1 /\ outs[1] \notin {"500", "exception"}) =>
                      fetch[t].pc = "returned"
               /\ Len(outs) = 2 => fetch[t].pc = "returned"
               /\ fetch[t].pc = "returned" <=> Len(fetch[t].result) = 2
               /\ fetch[t].pc = "returned" =>
                      /\ Len(outs) >= 1
                      /\ fetch[t].result[2] \in
                             {"HTTP 200 attempt 1", "HTTP 200 attempt 2",
                              "HTTP 404", "HTTP 500", "Exception"}
                      /\ fetch[t].result[1] # NoData =>
                             outs[Len(outs)] \in {"200 named", "200 unnamed"}
    /\ crawl.pc \in {"start", "loop", "done"} =>
           /\ sem >= 0
           /\ Cardinality(Inside) = CONCURRENCY - sem
           /\ Cardinality(Inside) <= CONCURRENCY

\* every permit is taken while a fetch waits for one, and a fetch holds its
\* permit between a failed first attempt and the second
C19_Witness ==
    /\ crawl.pc = "loop"
    /\ sem = 0
    /\ \E t \in DOMAIN fetch : fetch[t].pc = "pending"
    /\ \E t \in DOMAIN fetch :
           fetch[t].pc = "inside" /\ Len(fetch[t].outcomes) = 1

\* --------------------------------------------------------------------- C20
\* the fetch of pid's own URL returned a name main can use
OwnFetchNamed(pid) ==
    \E t \in DOMAIN fetch :
        /\ crawl.pairs[t].pid = pid
        /\ fetch[t].pc = "returned"
        /\ fetch[t].result[1] # NoData
        /\ fetch[t].result[1][1].name # ""

\* C20: in every pass of main's loop the result handled is the one of the
\* fetch of that pass's own pair; a slug row for a product, or a skip counted
\* in fail, happens only when the fetch of that product's URL returned no
\* usable name; no product id has two rows.
C20_ResultPairedWithOwnFetch ==
    crawl.pc \in {"loop", "done"} =>
        /\ \A k \in 1..Len(crawl.handled) :
               /\ crawl.pairs[crawl.handled[k].task].pid = crawl.handled[k].pid
               /\ ~OwnFetchNamed(crawl.handled[k].pid) \/
                      \E r \in 1..Len(crawl.rows) :
                          /\ crawl.rows[r].product_id = crawl.handled[k].pid
                          /\ crawl.rows[r].source = "react_data"
        /\ \A r \in 1..Len(crawl.rows) :
               crawl.rows[r].source = "slug" => ~OwnFetchNamed(crawl.rows[r].product_id)
        /\ \A r1, r2 \in 1..Len(crawl.rows) :
               crawl.rows[r1].product_id = crawl.rows[r2].product_id => r1 = r2

\* --------------------------------------------------------------------- C21
RECURSIVE SumCounts(_)
SumCounts(counter) ==
    IF DOMAIN counter = {} THEN 0
    ELSE LET t == CHOOSE t \in DOMAIN counter : TRUE
         IN  counter[t] + SumCounts([u \in DOMAIN counter \ {t} |-> counter[u]])

\* the count a profile stores under the label of None
NullCount(p) ==
    IF get_type_name(None) \in DOMAIN p.type_counts
    THEN p.type_counts[get_type_name(None)] ELSE 0

C22_DiscoveryAndProfilingAgree ==
    pc = "done" =>
        /\ Len(profiles) = Len(discovered)
        /\ \A i \in 1..Len(profiles) : profiles[i].field = discovered[i]

\* both functions returned several paths under a limit that cut the scan
C22_Witness ==
    /\ pc = "done"
    /\ PositiveLimit
    /\ scan_limit[1] < Len(coll)
    /\ Len(discovered) >= 2
    /\ Len(profiles) >= 2

\* --------------------------------------------------------------------- C23
\* the document at position d is an object whose keys, at every depth, are
\* non-empty and hold no "."
WellKeyed(d) ==
    /\ coll[d].type = "dict"
    /\ \A k \in KeysIn(coll[d]) :
           k # <<>> /\ \A j \in 1..Len(k) : k[j] # "."

\* the paths p with q = p + "." + k for some k
Parents(q) == {SubSeq(q, 1, j - 1) : j \in {j \in 1..Len(q) : q[j] = "."}}

\* C23: over well-keyed object documents, every parent p of a path returned
\* by discover_fields is returned by it, every parent p of a profiled path
\* has a profile, and that profile's present_count is at least the child's.
C23_ParentClosure ==
    /\ (pc \in {"profile_start", "profile_loop", "profile_return", "done"}
          /\ \A d \in d_traversed : WellKeyed(d)) =>
           \A i \in 1..Len(discovered) :
               \A p \in Parents(discovered[i]) :
                   \E j \in 1..Len(discovered) : discovered[j] = p
    /\ (pc = "done" /\ \A d \in p_traversed : WellKeyed(d)) =>
           \A i \in 1..Len(profiles) :
               \A p \in Parents(profiles[i].field) :
                   \E j \in 1..Len(profiles) :
                       /\ profiles[j].field = p
                       /\ profiles[j].present_count >= profiles[i].present_count

\* well-keyed documents were scanned, a parent was present in more of them
\* than its child
C23_Witness ==
    /\ pc = "done"
    /\ p_traversed # {}
    /\ \A d \in p_traversed \cup d_traversed : WellKeyed(d)
    /\ \E i, j \in 1..Len(profiles) :
           /\ profiles[j].field \in Parents(profiles[i].field)
           /\ profiles[j].present_count > profiles[i].present_count

====
